---- MODULE Spec2Model ----
(***************************************************************************)
(* A model of tools/compression_bench.py of rtach: the synthetic data      *)
(* generators, the compression operations (streaming and per-frame), the   *)
(* Result metrics and the benchmark runner main().                         *)
(*                                                                         *)
(* Bytes are the integers 0..255 and a bytes object is a sequence of them. *)
(***************************************************************************)
EXTENDS Integers, Sequences, FiniteSets, TLC

VARIABLES
    HAS_ZSTD,       \* module global set by the conditional import (lines 21-27)
    stream,         \* which pseudo-random stream the library's generator yields
    rng,            \* state of the process-wide `random` generator
    harness,        \* who drives the module: "main", "gen" or "codec"
    gen,            \* frame of the generator call in progress
    ref,            \* the generator call remembered for comparison
    draws,          \* unrelated random draws made since ref was remembered
    buf,            \* the bytes object the codec driver holds
    api,            \* the last compression operation's call and result
    m,              \* main()'s position: pc and loop indices
    terminal_data,  \* main()'s local terminal_data
    editor_data,    \* main()'s local editor_data
    out,            \* what the process has printed, line by line
    timing,         \* elapsed time and throughput of the row printed last
    pruned          \* the cells main() has passed over

vars == << HAS_ZSTD, stream, rng, harness, gen, ref, draws, buf, api, m,
           terminal_data, editor_data, out, timing, pruned >>

(***************************************************************************)
(* Bounds of the model.                                                    *)
(***************************************************************************)
\* generator driver: sizes 0..MaxGenSize, and one large size
MaxGenSize == 48
\* large enough for the editor cursor to wrap both its line and its column
BigGenSize == 1900
\* number of pseudo-random streams considered
NumStreams == 2
\* unrelated draws the generator driver makes between two calls
MaxOtherDraws == 1
\* codec driver: buffer sizes 0..MaxBufLen, frame sizes 1..MaxFrame
MaxBufLen == 6
MaxFrame == 4
\* bytes in the model's kibibyte: main()'s sizes are KiB, 4 KiB, 16 KiB, 64 KiB
KiB == 4
\* a non-zero elapsed time, in nanoseconds
ElapsedNs == 2000

None == "None"

Min(a, b) == IF a < b THEN a ELSE b
Max(a, b) == IF a > b THEN a ELSE b

(***************************************************************************)
(* bytes operations of the Python runtime                                  *)
(***************************************************************************)
\* data[lo:hi] for 0 <= lo, 0 <= hi
Slice(data, lo, hi) == SubSeq(data, lo + 1, Min(hi, Len(data)))

\* b" " * n: empty when n <= 0
Repeat(b, n) == [i \in 1..n |-> b]

\* str(n).encode() of a non-negative integer
RECURSIVE Decimal(_)
Decimal(n) == IF n < 10 THEN << 48 + n >>
              ELSE Append(Decimal(n \div 10), 48 + (n % 10))

(***************************************************************************)
(* The tables of generate_terminal_data and generate_editor_data           *)
(***************************************************************************)
escapes ==
  << <<27, 91, 48, 109>>,
     <<27, 91, 49, 109>>,
     <<27, 91, 51, 50, 109>>,
     <<27, 91, 51, 49, 109>>,
     <<27, 91, 48, 59, 51, 50, 109>>,
     <<27, 91, 49, 59, 51, 51, 109>>,
     <<27, 91, 51, 56, 59, 53, 59, 50, 48, 56, 109>>,
     <<27, 91, 75>>,
     <<27, 91, 50, 74>>,
     <<27, 91, 72>>,
     <<27, 91, 63, 50, 53, 104>>,
     <<27, 91, 63, 50, 53, 108>> >>

patterns ==
  << <<100, 114, 119, 120, 114, 45, 120, 114, 45, 120>>,
     <<45, 114, 119, 45, 114, 45, 45, 114, 45, 45>>,
     <<116, 111, 116, 97, 108, 32>>,
     <<117, 115, 101, 114, 64, 104, 111, 115, 116, 58>>,
     <<36, 32>>,
     <<62, 62, 62, 32>>,
     <<46, 46, 46, 32>>,
     <<101, 114, 114, 111, 114, 58, 32>>,
     <<119, 97, 114, 110, 105, 110, 103, 58, 32>>,
     <<32, 32, 97, 100, 100, 105, 110, 103, 58, 32>>,
     <<67, 111, 109, 112, 105, 108, 105, 110, 103, 32>>,
     <<32, 32, 32, 76, 105, 110, 107, 105, 110, 103, 32>> >>

\* string.printable.encode()
printable ==
  <<48, 49, 50, 51, 52, 53, 54, 55, 56, 57, 97, 98, 99, 100, 101, 102, 103,
    104, 105, 106, 107, 108, 109, 110, 111, 112, 113, 114, 115, 116, 117,
    118, 119, 120, 121, 122, 65, 66, 67, 68, 69, 70, 71, 72, 73, 74, 75, 76,
    77, 78, 79, 80, 81, 82, 83, 84, 85, 86, 87, 88, 89, 90, 33, 34, 35, 36,
    37, 38, 39, 40, 41, 42, 43, 44, 45, 46, 47, 58, 59, 60, 61, 62, 63, 64,
    91, 92, 93, 94, 95, 96, 123, 124, 125, 126, 32, 9, 10, 13, 11, 12>>

\* b"const foo = 123;"
content == <<99, 111, 110, 115, 116, 32, 102, 111, 111, 32, 61, 32, 49, 50, 51, 59>>

(***************************************************************************)
(* The `random` module.  The library's generator is a deterministic        *)
(* function of its state; the model takes a 16-bit counter-based generator *)
(* for it (the state counts draws, the output is a mix of the state), and   *)
(* lets the initial state choose which of NumStreams scramblings seed()     *)
(* applies, so that several draw sequences are examined.  Every draw        *)
(* advances the state once.                                                 *)
(***************************************************************************)
RngMod == 2 ^ 16

Twist(s) == (s + 1) % RngMod

\* the 12 output bits of state s
Bits(s) ==
    LET x == (s * 25173 + 13849) % RngMod
    IN  ((x \div 256) * 181 + (x % 256) * 59 + (x \div 16)) % 4096

\* random.seed(a)
seed(a) == (a * (2 * stream + 1) + 7919 * stream) % RngMod

\* random.randint(a, b): a <= v <= b
randint(s, a, b) == [s |-> Twist(s), v |-> a + (Bits(Twist(s)) % (b - a + 1))]

\* random.choice(seq)
choice(s, seq) == [s |-> Twist(s), v |-> seq[1 + (Bits(Twist(s)) % Len(seq))]]

\* random.random(), in units of 1/4096: 0 <= v < 4096
random(s) == [s |-> Twist(s), v |-> Bits(Twist(s))]

\* random.choices(population, k=k): k draws, in order
choices(s, population, k) ==
    [s |-> (s + k) % RngMod,
     v |-> [i \in 1..k |-> population[1 + (Bits((s + i) % RngMod) % Len(population))]]]

(***************************************************************************)
(* generate_terminal_data and generate_editor_data, one loop iteration a   *)
(* step.                                                                   *)
(***************************************************************************)
\* `made` remembers how many bytes the loop had made when it ended
GenIdle == [pc |-> "idle", kind |-> None, size |-> 0, data |-> << >>,
            line |-> 1, col |-> 1, made |-> 0]

\* lines 51 and 108-110: the locals of a generator on entry
GenFrame(kind, size) == [pc |-> kind, kind |-> kind, size |-> size, data |-> << >>,
                         line |-> 1, col |-> 1, made |-> 0]

\* line 83: the generator state the terminal generator starts from
TerminalSeed_unseeded(s) == s
TerminalSeed(s) == seed(12345)

\* lines 86-101: the body of the terminal loop, from generator state s
TerminalBody(data, s) ==
    LET c == randint(s, 0, 10) IN
    IF c.v <= 2 THEN
        LET e == choice(c.s, escapes) IN [data |-> data \o e.v, s |-> e.s]
    ELSE IF c.v <= 4 THEN
        LET n == randint(c.s, 1, 40) IN [data |-> data \o Repeat(32, n.v), s |-> n.s]
    ELSE IF c.v = 5 THEN
        LET r == random(c.s) IN
        [data |-> (IF 2 * r.v > 4096 THEN Append(data, 13) ELSE data) \o << 10 >>,
         s |-> r.s]
    ELSE IF c.v <= 7 THEN
        LET p == choice(c.s, patterns) IN [data |-> data \o p.v, s |-> p.s]
    ELSE IF c.v <= 9 THEN
        LET k == randint(c.s, 10, 80)
            b == choices(k.s, printable, k.v)
        IN  [data |-> data \o b.v, s |-> b.s]
    ELSE [data |-> Append(data, 0), s |-> c.s]

\* lines 103 and 120: data[:size]
Truncate_none(data, size) == data
Truncate(data, size) == Slice(data, 0, size)

\* line 114: f"\x1b[{line};{col}H".encode()
CursorMove(line, col) == << 27, 91 >> \o Decimal(line) \o << 59 >> \o Decimal(col) \o << 72 >>

\* lines 116-117
NextLine_nowrap(line) == line + 1
NextLine(line) == (line % 50) + 1
NextCol(col) == (col % 80) + 1

\* lines 49-83 and 106-110: entering a generator
GenEnter(kind, size) ==
    /\ gen.pc = "idle"
    /\ gen' = GenFrame(kind, size)
    /\ rng' = IF kind = "terminal" THEN TerminalSeed(rng) ELSE rng

\* lines 85-101
GenTerminalStep ==
    /\ gen.pc = "terminal"
    /\ Len(gen.data) < gen.size
    /\ LET it == TerminalBody(gen.data, rng) IN
       /\ gen' = [gen EXCEPT !.data = it.data]
       /\ rng' = it.s
    /\ UNCHANGED << HAS_ZSTD, stream, harness, ref, draws, buf, api, m,
                    terminal_data, editor_data, out, timing, pruned >>

\* lines 85, 103
GenTerminalExit ==
    /\ gen.pc = "terminal"
    /\ ~(Len(gen.data) < gen.size)
    /\ gen' = [gen EXCEPT !.pc = "return", !.made = Len(gen.data),
                          !.data = Truncate(gen.data, gen.size)]
    /\ UNCHANGED << HAS_ZSTD, stream, rng, harness, ref, draws, buf, api, m,
                    terminal_data, editor_data, out, timing, pruned >>

\* lines 112-117
GenEditorStep ==
    /\ gen.pc = "editor"
    /\ Len(gen.data) + 20 < gen.size
    /\ gen' = [gen EXCEPT !.data = gen.data \o CursorMove(gen.line, gen.col) \o content,
                          !.line = NextLine(gen.line),
                          !.col = NextCol(gen.col)]
    /\ UNCHANGED << HAS_ZSTD, stream, rng, harness, ref, draws, buf, api, m,
                    terminal_data, editor_data, out, timing, pruned >>

\* lines 112, 119-120
GenEditorExit ==
    /\ gen.pc = "editor"
    /\ ~(Len(gen.data) + 20 < gen.size)
    /\ gen' = [gen EXCEPT !.pc = "return", !.made = Len(gen.data),
                          !.data = Truncate(gen.data \o Repeat(32, gen.size - Len(gen.data)),
                                            gen.size)]
    /\ UNCHANGED << HAS_ZSTD, stream, rng, harness, ref, draws, buf, api, m,
                    terminal_data, editor_data, out, timing, pruned >>

(***************************************************************************)
(* The generator driver: calls of the two generators with any size, and    *)
(* unrelated draws from the process-wide generator between them.           *)
(***************************************************************************)
NoRef == [kind |-> None, size |-> 0, data |-> << >>]

CallGenerate ==
    /\ harness = "gen"
    /\ \E kind \in {"terminal", "editor"}, size \in 0..MaxGenSize : GenEnter(kind, size)
    /\ UNCHANGED << HAS_ZSTD, stream, harness, ref, draws, buf, api, m,
                    terminal_data, editor_data, out, timing, pruned >>

CallGenerateLarge ==
    /\ harness = "gen"
    /\ \E kind \in {"terminal", "editor"} : GenEnter(kind, BigGenSize)
    /\ UNCHANGED << HAS_ZSTD, stream, harness, ref, draws, buf, api, m,
                    terminal_data, editor_data, out, timing, pruned >>

\* the driver takes the returned bytes
ReturnGenerate ==
    /\ harness = "gen"
    /\ gen.pc = "return"
    /\ gen' = GenIdle
    /\ UNCHANGED << HAS_ZSTD, stream, rng, harness, ref, draws, buf, api, m,
                    terminal_data, editor_data, out, timing, pruned >>

\* the driver takes the returned bytes and remembers the first call it made
RememberGenerate ==
    /\ harness = "gen"
    /\ gen.pc = "return"
    /\ ref = NoRef
    /\ gen' = GenIdle
    /\ ref' = [kind |-> gen.kind, size |-> gen.size, data |-> gen.data]
    /\ UNCHANGED << HAS_ZSTD, stream, rng, harness, draws, buf, api, m,
                    terminal_data, editor_data, out, timing, pruned >>

OtherDraw ==
    /\ harness = "gen"
    /\ gen.pc = "idle"
    /\ draws < MaxOtherDraws
    /\ rng' = random(rng).s
    /\ draws' = draws + 1
    /\ UNCHANGED << HAS_ZSTD, stream, harness, gen, ref, buf, api, m,
                    terminal_data, editor_data, out, timing, pruned >>

(***************************************************************************)
(* The compression libraries.  The code uses only the length of what       *)
(* zlib.compress, lzma.compress and ZstdCompressor.compress return.  The   *)
(* model takes for it the size of a simple dictionary coder: a container   *)
(* overhead, one byte for every byte that does not occur among the         *)
(* `window` bytes before it, and one byte for every four bytes that do.    *)
(* The length depends on the content and on the level and on nothing else; *)
(* in particular a compressor context carries nothing from one compress()  *)
(* to the next.                                                            *)
(***************************************************************************)
Literals(data, window) ==
    { i \in 1..Len(data) : \A j \in Max(1, i - window)..(i - 1) : data[j] # data[i] }

LzLen(data, window) ==
    LET lit == Cardinality(Literals(data, window))
    IN  lit + ((Len(data) - lit + 3) \div 4)

\* len(zlib.compress(data, level))
zlib_compress(data, level) == 8 + LzLen(data, 4 * level)

\* len(lzma.compress(data))
lzma_compress(data) == 32 + LzLen(data, 64)

\* len(zstd.ZstdCompressor(level=level).compress(data))
zstd_compress(data, level) == 9 + LzLen(data, 8 * level)

CompressedLen(backend, data, level) ==
    IF backend = "zlib" THEN zlib_compress(data, level)
    ELSE IF backend = "lzma" THEN lzma_compress(data)
    ELSE zstd_compress(data, level)

\* time.perf_counter_ns() - start: the clock may not have advanced
Elapsed == {0, ElapsedNs}

(***************************************************************************)
(* The compression operations.  A call is a frame in `api`; the per-frame  *)
(* loop runs one iteration a step and keeps, for every chunk, its offset,  *)
(* its length, its compressed length, the compressor context that          *)
(* compressed it and the total after it.                                   *)
(***************************************************************************)
ApiIdle == [pc |-> "idle", op |-> None, backend |-> None, level |-> 0,
            frame_size |-> 0, data |-> << >>, offset |-> 0, total |-> 0,
            frames |-> << >>, cctx |-> 0, nctx |-> 0, ret |-> << >>,
            metrics |-> << >>]

\* lines 155-156 and 168-169
Unavailable(backend) == backend = "zstd" /\ ~HAS_ZSTD

\* lines 123-128, 147-152, 155-163: compress_streaming_zlib,
\* compress_streaming_lzma, compress_streaming_zstd as called with
\* (data, level), the clock giving ns
compress_streaming(backend, data, level, ns) ==
    IF Unavailable(backend)
    THEN [ApiIdle EXCEPT !.pc = "return", !.op = "streaming", !.backend = backend,
                         !.level = level, !.data = data, !.ret = << 0, 0 >>]
    ELSE [ApiIdle EXCEPT !.pc = "return", !.op = "streaming", !.backend = backend,
                         !.level = level, !.data = data, !.nctx = 1,
                         !.frames = << [offset |-> 0, len |-> Len(data),
                                        csize |-> CompressedLen(backend, data, level),
                                        ctx |-> 1,
                                        total |-> CompressedLen(backend, data, level)] >>,
                         !.total = CompressedLen(backend, data, level),
                         !.ret = << CompressedLen(backend, data, level), ns >>]

\* lines 131-135 and 166-173: entering compress_per_frame_zlib or
\* compress_per_frame_zstd; the zstd variant makes its compressor here
compress_per_frame(backend, data, frame_size, level) ==
    IF Unavailable(backend)
    THEN [ApiIdle EXCEPT !.pc = "return", !.op = "per_frame", !.backend = backend,
                         !.level = level, !.frame_size = frame_size, !.data = data,
                         !.ret = << 0, 0 >>]
    ELSE [ApiIdle EXCEPT !.pc = "loop", !.op = "per_frame", !.backend = backend,
                         !.level = level, !.frame_size = frame_size, !.data = data,
                         !.cctx = IF backend = "zstd" THEN 1 ELSE 0,
                         !.nctx = IF backend = "zstd" THEN 1 ELSE 0]

\* lines 140 and 179: the length prefix and the compressed chunk
FrameCost_noheader(csize) == csize
FrameCost(csize) == 4 + csize

\* lines 141 and 180
NextOffset(offset, frame_size) == offset + frame_size

\* lines 137-141 and 176-180: one iteration.  zlib.compress makes a
\* compressor of its own for every call; the zstd variant uses cctx.
PerFrameStep ==
    /\ api.pc = "loop"
    /\ api.offset < Len(api.data)
    /\ LET chunk == Slice(api.data, api.offset, api.offset + api.frame_size)
           compressed == CompressedLen(api.backend, chunk, api.level)
           fresh == api.backend = "zlib"
           ctx == IF fresh THEN api.nctx + 1 ELSE api.cctx
           total == api.total + FrameCost(compressed)
       IN  api' = [api EXCEPT
                     !.total = total,
                     !.offset = NextOffset(api.offset, api.frame_size),
                     !.nctx = IF fresh THEN api.nctx + 1 ELSE api.nctx,
                     !.frames = Append(api.frames,
                                       [offset |-> api.offset, len |-> Len(chunk),
                                        csize |-> compressed, ctx |-> ctx,
                                        total |-> total])]
    /\ UNCHANGED << HAS_ZSTD, stream, rng, harness, gen, ref, draws, buf, m,
                    terminal_data, editor_data, out, timing, pruned >>

\* lines 137, 143-144 and 176, 182-183
PerFrameExit ==
    /\ api.pc = "loop"
    /\ ~(api.offset < Len(api.data))
    /\ \E ns \in Elapsed :
          api' = [api EXCEPT !.pc = "return", !.ret = << api.total, ns >>]
    /\ UNCHANGED << HAS_ZSTD, stream, rng, harness, gen, ref, draws, buf, m,
                    terminal_data, editor_data, out, timing, pruned >>

(***************************************************************************)
(* Result and its derived properties.  A float is modelled by the integer  *)
(* it truncates to; a division is a value or the ZeroDivisionError it      *)
(* raises.                                                                 *)
(***************************************************************************)
Value(v) == [err |-> None, v |-> v]
ZeroDivisionError == [err |-> "ZeroDivisionError", v |-> 0]

FloatDiv(a, b) == IF b = 0 THEN ZeroDivisionError ELSE Value(a \div b)

\* lines 30-35
Result(name, original, compressed, time_ns) ==
    [name |-> name, original |-> original, compressed |-> compressed,
     time_ns |-> time_ns]

\* lines 37-39, in whole percent
ratio(self) == FloatDiv(self.compressed * 100, self.original)

\* (original / 1024 / 1024) / (time_ns / 1e9), in whole MB/s:
\* 1e9 / 2^20 = 5^9 / 2^11 = 1953125 / 2048
MbPerSecond(original, time_ns) == FloatDiv(original * 1953125, 2048 * time_ns)

\* lines 41-46: time_ns / 1e9 is 0 only for time_ns = 0
speed_mbps_unguarded(self) == MbPerSecond(self.original, self.time_ns)
speed_mbps(self) ==
    IF self.time_ns = 0 THEN Value(0)
    ELSE MbPerSecond(self.original, self.time_ns)

(***************************************************************************)
(* The codec driver: it has the generators make a buffer, calls the        *)
(* compression operations on it with any level and frame size, and builds  *)
(* a Result of what they return.                                           *)
(***************************************************************************)
Backends == {"zlib", "lzma", "zstd"}

Levels(backend) ==
    IF backend = "zlib" THEN {1, 6, 9}
    ELSE IF backend = "zstd" THEN {1, 3, 9}
    ELSE {0}

CodecGenerate ==
    /\ harness = "codec"
    /\ api.pc \in {"idle", "done"}
    /\ \E kind \in {"terminal", "editor"}, size \in 0..MaxBufLen : GenEnter(kind, size)
    /\ api' = ApiIdle
    /\ UNCHANGED << HAS_ZSTD, stream, harness, ref, draws, buf, m,
                    terminal_data, editor_data, out, timing, pruned >>

CodecTakeBuffer ==
    /\ harness = "codec"
    /\ gen.pc = "return"
    /\ buf' = gen.data
    /\ gen' = GenIdle
    /\ UNCHANGED << HAS_ZSTD, stream, rng, harness, ref, draws, api, m,
                    terminal_data, editor_data, out, timing, pruned >>

CodecStreaming ==
    /\ harness = "codec"
    /\ gen.pc = "idle"
    /\ api.pc \in {"idle", "done"}
    /\ \E backend \in Backends : \E level \in Levels(backend), ns \in Elapsed :
          api' = compress_streaming(backend, buf, level, ns)
    /\ UNCHANGED << HAS_ZSTD, stream, rng, harness, gen, ref, draws, buf, m,
                    terminal_data, editor_data, out, timing, pruned >>

CodecPerFrame ==
    /\ harness = "codec"
    /\ gen.pc = "idle"
    /\ api.pc \in {"idle", "done"}
    /\ \E backend \in {"zlib", "zstd"} :
       \E level \in Levels(backend), frame_size \in 1..MaxFrame :
          api' = compress_per_frame(backend, buf, frame_size, level)
    /\ UNCHANGED << HAS_ZSTD, stream, rng, harness, gen, ref, draws, buf, m,
                    terminal_data, editor_data, out, timing, pruned >>

CodecResult ==
    /\ harness = "codec"
    /\ api.pc = "return"
    /\ LET r == Result(api.op, Len(api.data), api.ret[1], api.ret[2])
       IN  api' = [api EXCEPT !.pc = "done",
                              !.metrics = << ratio(r), speed_mbps(r) >>]
    /\ UNCHANGED << HAS_ZSTD, stream, rng, harness, gen, ref, draws, buf, m,
                    terminal_data, editor_data, out, timing, pruned >>

(***************************************************************************)
(* main(), one report line or one loop test a step.  The generators and    *)
(* the per-frame operations it calls run as the steps above.  Sizes are    *)
(* in the model's kibibyte: the program's 1024 is KiB.                      *)
(***************************************************************************)
\* line 190: [1024, 4096, 16384, 65536]
test_sizes == << KiB, 4 * KiB, 16 * KiB, 64 * KiB >>

\* line 201
workloads == << "Terminal (mixed)", "Editor (cursor)" >>

\* line 207
zlib_streaming_levels == << 1, 6, 9 >>

\* line 214: [512, 1024, 2048]
zlib_frames == << KiB \div 2, KiB, 2 * KiB >>

\* line 217
zlib_frame_levels == << 1, 6 >>

\* line 224: size <= 16384
LzmaApplies(size) == size <= 16 * KiB

\* line 232
zstd_streaming_levels == << 1, 3, 9 >>

\* line 238: [1024, 2048]
zstd_frames == << KiB, 2 * KiB >>

\* lines 215 and 239: if frame > size: continue
Oversized_orequal(frame, size) == frame >= size
Oversized(frame, size) == frame > size

MainStart == [pc |-> "start", si |-> 1, wi |-> 1, li |-> 1, fi |-> 1]

Size == test_sizes[m.si]

\* line 201: the data of the workload at hand
Data == IF m.wi = 1 THEN terminal_data ELSE editor_data

Line(t, backend, framing, frame, level, comp) ==
    [t |-> t, size |-> Size, wi |-> m.wi, backend |-> backend,
     framing |-> framing, frame |-> frame, level |-> level,
     comp |-> comp, ratio |-> FloatDiv(comp * 100, Size)]

\* lines 26-27
Notice == [t |-> "notice", size |-> 0, wi |-> 0, backend |-> "zstd",
           framing |-> None, frame |-> 0, level |-> 0,
           comp |-> 0, ratio |-> Value(0)]

\* lines 210, 220, 227, 235, 243
Mbps(size, ns) == IF ns > 0 THEN MbPerSecond(size, ns) ELSE Value(0)

\* lines 209-211 and their four repetitions: the row of one measurement
PrintRow(backend, framing, frame, level, comp, ns) ==
    /\ out' = Append(out, Line("row", backend, framing, frame, level, comp))
    /\ timing' = [ns |-> ns, mbps |-> Mbps(Size, ns)]

Pruned(backend, framing, frame, why) ==
    [size |-> Size, wi |-> m.wi, backend |-> backend, framing |-> framing,
     frame |-> frame, why |-> why]

\* line 201: the next workload, or the next size
AfterTable ==
    IF m.wi < Len(workloads)
    THEN [m EXCEPT !.pc = "table", !.wi = m.wi + 1, !.li = 1, !.fi = 1]
    ELSE [m EXCEPT !.pc = "size", !.si = m.si + 1, !.wi = 1, !.li = 1, !.fi = 1]

\* lines 185-188
MainBanner ==
    /\ harness = "main"
    /\ m.pc = "start"
    /\ out' = Append(out, [Notice EXCEPT !.t = "banner", !.backend = None])
    /\ m' = [m EXCEPT !.pc = "size"]
    /\ UNCHANGED << HAS_ZSTD, stream, rng, harness, gen, ref, draws, buf, api,
                    terminal_data, editor_data, timing, pruned >>

\* lines 193-198: the size header, and the call of generate_terminal_data
MainSize ==
    /\ harness = "main"
    /\ m.pc = "size"
    /\ m.si <= Len(test_sizes)
    /\ out' = Append(out, [Notice EXCEPT !.t = "size_header", !.backend = None,
                                         !.size = Size])
    /\ GenEnter("terminal", Size)
    /\ m' = [m EXCEPT !.pc = "terminal_data"]
    /\ UNCHANGED << HAS_ZSTD, stream, harness, ref, draws, buf, api,
                    terminal_data, editor_data, timing, pruned >>

\* lines 198-199: terminal_data is bound, generate_editor_data is called
MainTerminalData ==
    /\ harness = "main"
    /\ m.pc = "terminal_data"
    /\ gen.pc = "return"
    /\ terminal_data' = gen.data
    /\ gen' = GenFrame("editor", Size)
    /\ m' = [m EXCEPT !.pc = "editor_data"]
    /\ UNCHANGED << HAS_ZSTD, stream, rng, harness, ref, draws, buf, api,
                    editor_data, out, timing, pruned >>

\* line 199
MainEditorData ==
    /\ harness = "main"
    /\ m.pc = "editor_data"
    /\ gen.pc = "return"
    /\ editor_data' = gen.data
    /\ gen' = GenIdle
    /\ m' = [m EXCEPT !.pc = "table", !.wi = 1]
    /\ UNCHANGED << HAS_ZSTD, stream, rng, harness, ref, draws, buf, api,
                    terminal_data, out, timing, pruned >>

\* lines 201-204
MainTable ==
    /\ harness = "main"
    /\ m.pc = "table"
    /\ out' = Append(out, [Notice EXCEPT !.t = "table_header", !.backend = None,
                                         !.size = Size, !.wi = m.wi])
    /\ m' = [m EXCEPT !.pc = "zlib_streaming", !.li = 1]
    /\ UNCHANGED << HAS_ZSTD, stream, rng, harness, gen, ref, draws, buf, api,
                    terminal_data, editor_data, timing, pruned >>

\* lines 207-211
MainZlibStreaming ==
    /\ harness = "main"
    /\ m.pc = "zlib_streaming"
    /\ \E ns \in Elapsed :
          /\ api' = compress_streaming("zlib", Data, zlib_streaming_levels[m.li], ns)
          /\ PrintRow("zlib", "streaming", 0, zlib_streaming_levels[m.li],
                      api'.ret[1], api'.ret[2])
    /\ m' = IF m.li < Len(zlib_streaming_levels)
            THEN [m EXCEPT !.li = m.li + 1]
            ELSE [m EXCEPT !.pc = "zlib_frame", !.fi = 1, !.li = 1]
    /\ UNCHANGED << HAS_ZSTD, stream, rng, harness, gen, ref, draws, buf,
                    terminal_data, editor_data, pruned >>

\* lines 214-217: the loop over the frame sizes with, inside it, the loop
\* over the levels; after `continue` the next frame size
ZlibFrameNext_levelsoutside(fi, li, skipped) ==
    IF fi < Len(zlib_frames) THEN [fi |-> fi + 1, li |-> li, done |-> FALSE]
    ELSE [fi |-> 1, li |-> li + 1, done |-> ~(li < Len(zlib_frame_levels))]
ZlibFrameNext(fi, li, skipped) ==
    IF ~skipped /\ li < Len(zlib_frame_levels)
    THEN [fi |-> fi, li |-> li + 1, done |-> FALSE]
    ELSE [fi |-> fi + 1, li |-> 1, done |-> ~(fi < Len(zlib_frames))]

ZlibFrameMove(skipped) ==
    LET n == ZlibFrameNext(m.fi, m.li, skipped)
    IN  IF n.done THEN [m EXCEPT !.pc = "lzma", !.fi = 1, !.li = 1]
        ELSE [m EXCEPT !.pc = "zlib_frame", !.fi = n.fi, !.li = n.li]

\* lines 215-216
MainZlibFrameSkip ==
    /\ harness = "main"
    /\ m.pc = "zlib_frame"
    /\ Oversized(zlib_frames[m.fi], Size)
    /\ pruned' = pruned \cup {Pruned("zlib", "frame", zlib_frames[m.fi], "frame > size")}
    /\ m' = ZlibFrameMove(TRUE)
    /\ UNCHANGED << HAS_ZSTD, stream, rng, harness, gen, ref, draws, buf, api,
                    terminal_data, editor_data, out, timing >>

\* line 218: the call
MainZlibFrameCall ==
    /\ harness = "main"
    /\ m.pc = "zlib_frame"
    /\ ~Oversized(zlib_frames[m.fi], Size)
    /\ api' = compress_per_frame("zlib", Data, zlib_frames[m.fi], zlib_frame_levels[m.li])
    /\ m' = [m EXCEPT !.pc = "zlib_frame_row"]
    /\ UNCHANGED << HAS_ZSTD, stream, rng, harness, gen, ref, draws, buf,
                    terminal_data, editor_data, out, timing, pruned >>

\* lines 218-221: the call has returned
MainZlibFrameRow ==
    /\ harness = "main"
    /\ m.pc = "zlib_frame_row"
    /\ api.pc = "return"
    /\ PrintRow("zlib", "frame", zlib_frames[m.fi], zlib_frame_levels[m.li],
                api.ret[1], api.ret[2])
    /\ m' = ZlibFrameMove(FALSE)
    /\ UNCHANGED << HAS_ZSTD, stream, rng, harness, gen, ref, draws, buf, api,
                    terminal_data, editor_data, pruned >>

\* line 231: the zstd rows, or the next table
AfterLzma ==
    IF HAS_ZSTD THEN [m EXCEPT !.pc = "zstd_streaming", !.li = 1, !.fi = 1]
    ELSE AfterTable

ZstdAbsent ==
    IF HAS_ZSTD THEN {} ELSE {Pruned("zstd", None, 0, "not HAS_ZSTD")}

\* lines 224-228
MainLzma ==
    /\ harness = "main"
    /\ m.pc = "lzma"
    /\ LzmaApplies(Size)
    /\ \E ns \in Elapsed :
          /\ api' = compress_streaming("lzma", Data, 0, ns)
          /\ PrintRow("lzma", "streaming", 0, 0, api'.ret[1], api'.ret[2])
    /\ pruned' = pruned \cup ZstdAbsent
    /\ m' = AfterLzma
    /\ UNCHANGED << HAS_ZSTD, stream, rng, harness, gen, ref, draws, buf,
                    terminal_data, editor_data >>

\* line 224: the test fails
MainLzmaSkip ==
    /\ harness = "main"
    /\ m.pc = "lzma"
    /\ ~LzmaApplies(Size)
    /\ pruned' = pruned \cup {Pruned("lzma", "streaming", 0, "size > 16384")}
                        \cup ZstdAbsent
    /\ m' = AfterLzma
    /\ UNCHANGED << HAS_ZSTD, stream, rng, harness, gen, ref, draws, buf, api,
                    terminal_data, editor_data, out, timing >>

\* lines 232-236
MainZstdStreaming ==
    /\ harness = "main"
    /\ m.pc = "zstd_streaming"
    /\ \E ns \in Elapsed :
          /\ api' = compress_streaming("zstd", Data, zstd_streaming_levels[m.li], ns)
          /\ PrintRow("zstd", "streaming", 0, zstd_streaming_levels[m.li],
                      api'.ret[1], api'.ret[2])
    /\ m' = IF m.li < Len(zstd_streaming_levels)
            THEN [m EXCEPT !.li = m.li + 1]
            ELSE [m EXCEPT !.pc = "zstd_frame", !.fi = 1, !.li = 1]
    /\ UNCHANGED << HAS_ZSTD, stream, rng, harness, gen, ref, draws, buf,
                    terminal_data, editor_data, pruned >>

\* line 238: the next frame size, or the next table
ZstdFrameMove ==
    IF m.fi < Len(zstd_frames)
    THEN [m EXCEPT !.pc = "zstd_frame", !.fi = m.fi + 1]
    ELSE AfterTable

\* lines 239-240
MainZstdFrameSkip ==
    /\ harness = "main"
    /\ m.pc = "zstd_frame"
    /\ Oversized(zstd_frames[m.fi], Size)
    /\ pruned' = pruned \cup {Pruned("zstd", "frame", zstd_frames[m.fi], "frame > size")}
    /\ m' = ZstdFrameMove
    /\ UNCHANGED << HAS_ZSTD, stream, rng, harness, gen, ref, draws, buf, api,
                    terminal_data, editor_data, out, timing >>

\* line 241: the call
MainZstdFrameCall ==
    /\ harness = "main"
    /\ m.pc = "zstd_frame"
    /\ ~Oversized(zstd_frames[m.fi], Size)
    /\ api' = compress_per_frame("zstd", Data, zstd_frames[m.fi], 3)
    /\ m' = [m EXCEPT !.pc = "zstd_frame_row"]
    /\ UNCHANGED << HAS_ZSTD, stream, rng, harness, gen, ref, draws, buf,
                    terminal_data, editor_data, out, timing, pruned >>

\* lines 241-244: the call has returned
MainZstdFrameRow ==
    /\ harness = "main"
    /\ m.pc = "zstd_frame_row"
    /\ api.pc = "return"
    /\ PrintRow("zstd", "frame", zstd_frames[m.fi], 3, api.ret[1], api.ret[2])
    /\ m' = ZstdFrameMove
    /\ UNCHANGED << HAS_ZSTD, stream, rng, harness, gen, ref, draws, buf, api,
                    terminal_data, editor_data, pruned >>

\* lines 246-298: the sizes are exhausted; the closing analysis
MainAnalysis ==
    /\ harness = "main"
    /\ m.pc = "size"
    /\ m.si > Len(test_sizes)
    /\ out' = Append(out, [Notice EXCEPT !.t = "analysis", !.backend = None])
    /\ m' = [m EXCEPT !.pc = "exit"]
    /\ UNCHANGED << HAS_ZSTD, stream, rng, harness, gen, ref, draws, buf, api,
                    terminal_data, editor_data, timing, pruned >>

(***************************************************************************)
(* Initial state: the module has been imported.  The interpreter seeds the *)
(* process-wide generator from the system's entropy: one of two states.    *)
(***************************************************************************)
InitCommon ==
    /\ HAS_ZSTD \in BOOLEAN
    /\ stream \in 0..(NumStreams - 1)
    /\ rng \in {0, RngMod \div 2}
    /\ gen = GenIdle
    /\ ref = NoRef
    /\ draws = 0
    /\ buf = << >>
    /\ api = ApiIdle
    /\ m = MainStart
    /\ terminal_data = << >>
    /\ editor_data = << >>
    /\ out = IF HAS_ZSTD THEN << >> ELSE << Notice >>
    /\ timing = [ns |-> 0, mbps |-> Value(0)]
    /\ pruned = {}

InitGen == InitCommon /\ harness = "gen"

\* the generator functions called one after the other, with small sizes
\* and with a large one
NextLoop ==
    \/ CallGenerate
    \/ CallGenerateLarge
    \/ GenTerminalStep
    \/ GenTerminalExit
    \/ GenEditorStep
    \/ GenEditorExit
    \/ ReturnGenerate

\* a generator call in progress is not suspended for ever: the process is
\* single-threaded and runs each loop to its end
SpecLoop ==
    /\ InitGen
    /\ [][NextLoop]_vars
    /\ WF_vars(GenTerminalStep)
    /\ WF_vars(GenTerminalExit)
    /\ WF_vars(GenEditorStep)
    /\ WF_vars(GenEditorExit)

\* the generator functions called with small sizes, the driver remembering
\* its first call and drawing from the process-wide generator in between
NextGen ==
    \/ CallGenerate
    \/ GenTerminalStep
    \/ GenTerminalExit
    \/ GenEditorStep
    \/ GenEditorExit
    \/ ReturnGenerate
    \/ RememberGenerate
    \/ OtherDraw

SpecGen == InitGen /\ [][NextGen]_vars

NextCodec ==
    \/ CodecGenerate
    \/ GenTerminalStep
    \/ GenTerminalExit
    \/ GenEditorStep
    \/ GenEditorExit
    \/ CodecTakeBuffer
    \/ CodecStreaming
    \/ CodecPerFrame
    \/ PerFrameStep
    \/ PerFrameExit
    \/ CodecResult

NextMain ==
    \/ MainBanner
    \/ MainSize
    \/ MainTerminalData
    \/ MainEditorData
    \/ MainTable
    \/ MainZlibStreaming
    \/ MainZlibFrameSkip
    \/ MainZlibFrameCall
    \/ MainZlibFrameRow
    \/ MainLzma
    \/ MainLzmaSkip
    \/ MainZstdStreaming
    \/ MainZstdFrameSkip
    \/ MainZstdFrameCall
    \/ MainZstdFrameRow
    \/ MainAnalysis

\* the module run as a script, or driven through its compression operations
Init == InitCommon /\ harness \in {"main", "codec"}

Next == NextMain \/ NextCodec

Spec == Init /\ [][Next]_vars

(***************************************************************************)
(* Properties of the generators                                            *)
(***************************************************************************)
\* C1: a generator call of either kind, for any size >= 0, returns exactly
\* size bytes, whatever the loop drew and however far it overshot.
LengthExact == gen.pc = "return" => Len(gen.data) = gen.size

\* C1 witness: a terminal call for a size of one byte returned after its
\* only unit overshot the size by three bytes or more.
LengthExactWitness ==
    /\ gen.pc = "return"
    /\ gen.kind = "terminal"
    /\ gen.size = 1
    /\ gen.made >= gen.size + 3

\* C2: a call that returns for the (kind, size) of the remembered call
\* returns the remembered bytes, whatever was called or drawn in between.
Deterministic ==
    (gen.pc = "return" /\ ref.kind = gen.kind /\ ref.size = gen.size)
        => gen.data = ref.data

\* C2 witness: a repeated terminal call returns after an unrelated draw.
DeterministicWitness ==
    /\ gen.pc = "return"
    /\ gen.kind = "terminal"
    /\ ref.kind = "terminal"
    /\ ref.size = gen.size
    /\ gen.size > 8
    /\ draws > 0

\* C10: every iteration of the terminal loop appends at least one byte,
\* every iteration of the editor loop appends at least 22 bytes and keeps
\* the cursor in line 1..50, column 1..80, and every generator call returns.
LoopsTerminate ==
    /\ [][(gen.pc = "terminal" /\ gen'.pc = "terminal")
             => Len(gen'.data) >= Len(gen.data) + 1]_vars
    /\ [][(gen.pc = "editor" /\ gen'.pc = "editor")
             => /\ Len(gen'.data) >= Len(gen.data) + 22
                /\ gen'.line \in 1..50
                /\ gen'.col \in 1..80]_vars
    /\ (gen.pc \in {"terminal", "editor"}) ~> (gen.pc = "return")

\* C10 witness: the editor loop has run 80 times, so that both the line and
\* the column have wrapped, and the call has returned.
LoopsTerminateWitness ==
    /\ gen.pc = "return"
    /\ gen.kind = "editor"
    /\ gen.made > 80 * 22
    /\ gen.col = 1
    /\ gen.line = 31

(***************************************************************************)
(* Properties of the compression operations and of main()                  *)
(***************************************************************************)
Returned == api.pc \in {"return", "done"}

\* C3: a per-frame pass over a buffer of length size with frame size f makes
\* ceil(size / f) chunks, the i-th at offset (i - 1) * f, each of length f
\* but the last, which ends the buffer; and it returns the sum over the
\* chunks of 4 plus the chunk's compressed length.
PerFrameAggregate ==
    (api.op = "per_frame" /\ Returned /\ ~Unavailable(api.backend)) =>
        LET size == Len(api.data)
            f == api.frame_size
            n == Len(api.frames)
        IN  /\ n = (size + f - 1) \div f
            /\ \A i \in 1..n :
                  LET fr == api.frames[i] IN
                  /\ fr.offset = (i - 1) * f
                  /\ fr.len = IF i < n THEN f ELSE size - (n - 1) * f
                  /\ fr.len >= 1
                  /\ fr.csize = CompressedLen(api.backend,
                                              SubSeq(api.data, fr.offset + 1,
                                                     fr.offset + fr.len),
                                              api.level)
                  /\ fr.total = (IF i = 1 THEN 0 ELSE api.frames[i - 1].total)
                                   + 4 + fr.csize
            /\ api.ret[1] = IF n = 0 THEN 0 ELSE api.frames[n].total

\* C3 witness: a pass of three chunks or more has returned, its last chunk
\* shorter than the frame size.
PerFrameAggregateWitness ==
    /\ api.op = "per_frame"
    /\ Returned
    /\ Len(api.frames) >= 3
    /\ api.frames[Len(api.frames)].len < api.frame_size

IsRow(line) == line.t = "row"

Rows == SelectSeq(out, IsRow)

\* the frame-size cells of main()'s matrix: backend, frame size, level
FrameCells ==
    { << "zlib", zlib_frames[i], zlib_frame_levels[j] >> :
        i \in 1..Len(zlib_frames), j \in 1..Len(zlib_frame_levels) }
    \cup (IF HAS_ZSTD THEN { << "zstd", zstd_frames[i], 3 >> : i \in 1..Len(zstd_frames) }
          ELSE {})

HasRow(size, wi, backend, framing, frame, level) ==
    \E i \in 1..Len(Rows) :
        /\ Rows[i].size = size
        /\ Rows[i].wi = wi
        /\ Rows[i].backend = backend
        /\ Rows[i].framing = framing
        /\ Rows[i].frame = frame
        /\ Rows[i].level = level

\* C4: a per-frame pass whose frame size is the length of the buffer returns
\* the streaming length for that backend and level plus 4; main() runs every
\* cell whose frame size equals the size, and its row shows the compressed
\* size of the streaming row of that backend and level plus 4.
SingleFrameIsStreamingPlusHeader ==
    /\ (api.op = "per_frame" /\ Returned /\ ~Unavailable(api.backend)
            /\ api.frame_size = Len(api.data))
         => api.ret[1] = CompressedLen(api.backend, api.data, api.level) + 4
    /\ \A i \in 1..Len(Rows) :
          (Rows[i].framing = "frame" /\ Rows[i].frame = Rows[i].size) =>
              \E j \in 1..Len(Rows) :
                  /\ Rows[j].framing = "streaming"
                  /\ Rows[j].size = Rows[i].size
                  /\ Rows[j].wi = Rows[i].wi
                  /\ Rows[j].backend = Rows[i].backend
                  /\ Rows[j].level = Rows[i].level
                  /\ Rows[i].comp = Rows[j].comp + 4
    /\ m.pc = "exit" =>
          \A si \in 1..Len(test_sizes), wi \in 1..Len(workloads), c \in FrameCells :
              c[2] = test_sizes[si] =>
                  HasRow(test_sizes[si], wi, c[1], "frame", c[2], c[3])

\* C4 witness: main() has printed the row of a zstd cell whose frame size is
\* the size of the buffer.
SingleFrameWitness ==
    \E i \in 1..Len(Rows) :
        /\ Rows[i].framing = "frame"
        /\ Rows[i].frame = Rows[i].size
        /\ Rows[i].backend = "zstd"

\* C5: no row is printed for a cell whose frame size exceeds the size or
\* whose backend is absent, and no compression operation returns a
\* (size, elapsed) result for the optional backend while HAS_ZSTD is false.
NoResultForSkippedCell ==
    /\ \A i \in 1..Len(Rows) :
          /\ ~(Rows[i].framing = "frame" /\ Rows[i].frame > Rows[i].size)
          /\ ~(Rows[i].backend = "zstd" /\ ~HAS_ZSTD)
    /\ (Returned /\ api.backend = "zstd" /\ ~HAS_ZSTD) => Len(api.ret) # 2

\* C6: the throughput of a measurement is a number, never a division
\* error, and it is 0 when the elapsed time is 0: for Result.speed_mbps
\* and for the throughput of the row main() printed last.
ThroughputZeroWhenNoTime ==
    /\ api.pc = "done" =>
          /\ api.metrics[2].err = None
          /\ api.ret[2] = 0 => api.metrics[2] = Value(0)
    /\ timing.mbps.err = None
    /\ timing.ns = 0 => timing.mbps = Value(0)

\* C6 witness: a Result was built of a compression that took no time.
ThroughputWitness ==
    /\ api.pc = "done"
    /\ api.ret[1] > 0
    /\ api.ret[2] = 0
    /\ Len(api.data) > 0

\* C7: every cell main() has passed over is documented by a line of the
\* output that names its backend and its framing.
PruningDocumented ==
    \A c \in pruned :
        \E i \in 1..Len(out) :
            /\ out[i].t = "notice"
            /\ out[i].backend = c.backend
            /\ out[i].framing = c.framing

\* C8: in a per-frame pass no compressor context compresses two chunks.
FreshContextPerChunk ==
    api.op = "per_frame" =>
        \A i, j \in 1..Len(api.frames) :
            i # j => api.frames[i].ctx # api.frames[j].ctx

BackendRank(backend) ==
    IF backend = "zlib" THEN 1 ELSE IF backend = "lzma" THEN 2 ELSE 3

FramingRank(framing) == IF framing = "streaming" THEN 1 ELSE 2

\* a precedes b in the lexicographic order of tuples of equal length
LexLess(a, b) ==
    \E k \in 1..Len(a) : a[k] < b[k] /\ \A j \in 1..(k - 1) : a[j] = b[j]

KeyAsClaimed(r) ==
    << r.size, r.wi, BackendRank(r.backend), r.level, FramingRank(r.framing), r.frame >>

KeyOfCode(r) ==
    << r.size, r.wi, BackendRank(r.backend), FramingRank(r.framing), r.frame, r.level >>

\* C9 as claimed: the rows come in the nested order size, workload class,
\* backend, level, framing strategy, frame size.
RowOrderAsClaimed ==
    \A i \in 1..(Len(Rows) - 1) : LexLess(KeyAsClaimed(Rows[i]), KeyAsClaimed(Rows[i + 1]))

\* C9 as amended: the rows come in the nested order size, workload class,
\* backend, framing strategy, frame size, level.
RowOrderOfCode ==
    \A i \in 1..(Len(Rows) - 1) : LexLess(KeyOfCode(Rows[i]), KeyOfCode(Rows[i + 1]))

\* C9 witness: main() has printed its last row, with all three backends.
RowOrderWitness ==
    /\ m.pc = "exit"
    /\ HAS_ZSTD
    /\ Len(Rows) > 40

====
